---- MODULE Spec2Model ----
(***************************************************************************)
(* Model of the ai-ui-ai crate: the fallback orchestrator                  *)
(* generate_response (lib.rs), the primary backend client's buffered send  *)
(* and server-push stream (claude.rs) and the local backend (ollama.rs).   *)
(***************************************************************************)
EXTENDS Integers, Sequences, FiniteSets, TLC

\* ------------------------------------------------------------------------
\* Bounds of the model
\* ------------------------------------------------------------------------
MaxBlocks == 2
MaxEvents == 4
MaxStores == 2
MaxTools == 2
MaxServers == 2
MaxConnects == 2
MaxPairEvents == 2
MaxCommands == 2

\* ------------------------------------------------------------------------
\* Program constants
\* ------------------------------------------------------------------------
RATE_LIMIT_STATUS == 429
OLLAMA_ERROR_STATUS == 500

VARIABLES
    \* generate_response(prompt, claude_key)
    prompt,          \* the prompt argument
    claude_key,      \* Option<&str>: NoKey or Some(byte string)
    pc,              \* position of the generate_response future
    result,          \* value returned by generate_response
    clientBuilt,     \* ClaudeClient::new has been called
    inflight,        \* backend requests currently awaited
    primaryCalls,    \* number of primary exchanges issued
    probeCalls,      \* number of is_ollama_running calls issued
    genCalls,        \* number of ollama::generate calls issued
    sendResult,      \* what ClaudeClient::send returned
    probeResult,     \* what is_ollama_running returned
    genResult,       \* what ollama::generate returned
    genPrompt,       \* the prompt handed to ollama::generate
    \* ClaudeClient::stream(prompt, on_chunk)
    api_key,         \* the client's api_key
    script,          \* what the event source will yield, in order
    pos,             \* number of items of script already yielded
    spc,             \* position of the stream future
    chunks,          \* arguments passed to on_chunk so far, in call order
    activeChunks,    \* on_chunk invocations that have not yet returned
    es,              \* the EventSource connection: none / open / closed
    sresult          \* value returned by stream

orchVars == <<prompt, claude_key, pc, result, clientBuilt, inflight,
              primaryCalls, probeCalls, genCalls, sendResult, probeResult,
              genResult, genPrompt>>
streamVars == <<api_key, script, pos, spc, chunks, activeChunks, es, sresult>>

VARIABLES
    \* load_api_key / store_api_key and the three credential sources
    env_var,         \* ANTHROPIC_API_KEY: unset, a value, or not unicode
    keyring,         \* the OS keyring and its ai-ui/anthropic-api-key entry
    config,          \* the per-user config dir and ai-ui/config.toml
    cop,             \* the credential operation that ran last
    loaded,          \* outcome of the last load_api_key
    stored,          \* outcome of the last store_api_key
    storeArg,        \* argument of the last store_api_key
    storeCalls       \* number of store_api_key calls made

VARIABLES
    \* one ClaudeClient, one backend behaviour, both buffered operations
    sx_key,          \* the client's api_key
    sx_resp,         \* how the endpoint answers the POST
    sx_tools,        \* the tools argument of send_with_tools
    sx_send,         \* outcome of send(messages)
    sx_sendTools,    \* outcome of send_with_tools(messages, tools)
    sx_req           \* the tools field of the request issued last

VARIABLES
    \* load_mcp_configs / connect_mcp_server
    mcp_file,        \* the config dir and ai-ui/mcp-servers.toml
    mcp_loaded,      \* the Vec<McpServerConfig> returned by the last load
    mcp_op,          \* the MCP operation that ran last
    launched,        \* commands for which a subprocess was started
    connected,       \* outcome of the last connect_mcp_server
    connectCalls,    \* number of connect_mcp_server calls made
    spawnCmd,        \* provider, command and argv of the last subprocess asked for
    spawned          \* how that subprocess behaved

VARIABLES
    \* the local backend's two operations on their own
    lx_prompt,       \* the prompt argument of generate
    lx_probe,        \* how the local endpoint answers the GET of the probe
    lx_running,      \* outcome of is_ollama_running
    lx_gen,          \* how the local service answers generate
    lx_genResult     \* outcome of generate

VARIABLES
    \* two concurrent calls of stream_response, each a function of the call
    sr_script,       \* the items the call's event source will yield
    sr_pos,          \* number of items the call has taken
    sr_pc,           \* where the call is
    full_response,   \* the call's accumulation buffer
    sr_delivered,    \* the fragments passed to the call's callback, in order
    sr_es,           \* the call's connection
    sr_stream,       \* what client.stream returned to the call
    sr_result        \* what the call returned

VARIABLES
    \* AiUiShell, the fields of the command bar, and the tasks update started
    command_input,           \* the text of the command bar's input field
    ai_response,             \* the text of the response area
    ai_streaming,            \* the flag behind "(streaming...)"
    is_command_bar_visible,  \* whether view renders the command bar
    tasks,                   \* the generate_response tasks, in issue order
    shell_op                 \* the message update handled last

shellVars == <<command_input, ai_response, ai_streaming, is_command_bar_visible,
               tasks, shell_op>>
pairVars == <<sr_script, sr_pos, sr_pc, full_response, sr_delivered, sr_es,
              sr_stream, sr_result>>
localVars == <<lx_prompt, lx_probe, lx_running, lx_gen, lx_genResult>>
mcpVars == <<mcp_file, mcp_loaded, mcp_op, launched, connected, connectCalls,
             spawnCmd, spawned>>
sendVars == <<sx_key, sx_resp, sx_tools, sx_send, sx_sendTools, sx_req>>
credVars == <<env_var, keyring, config, cop, loaded, stored, storeArg, storeCalls>>
auxVars == <<credVars, sendVars, mcpVars, localVars, pairVars, shellVars>>
vars == <<orchVars, streamVars, auxVars>>

\* ------------------------------------------------------------------------
\* Values
\* ------------------------------------------------------------------------
Pending == [tag |-> "Pending"]
Ok(v) == [tag |-> "Ok", val |-> v]
Err(e) == [tag |-> "Err", err |-> e]

\* enum AiError
RateLimited == [kind |-> "RateLimited"]
Network(cause) == [kind |-> "Network", cause |-> cause]
ApiError(status, message) == [kind |-> "ApiError", status |-> status, message |-> message]
NoBackend == [kind |-> "NoBackend"]

\* Option
None == [some |-> FALSE]
NoKey == None
Some(k) == [some |-> TRUE, val |-> k]
\* credentials as byte strings: "sk", "s\n" (a newline), "s\t" (a tab), ""
Credentials == { <<115, 107>>, <<115, 10>>, <<115, 9>>, <<>> }
Prompts == {"hi", "open mail"}

\* enum ContentBlock (the variants a reply can carry)
TextBlock(t) == [type |-> "text", text |-> t]
ToolUseBlock(id) == [type |-> "tool_use", id |-> id]
Blocks == { TextBlock("one"), TextBlock("two"), ToolUseBlock("tu1") }

RECURSIVE SeqsUpTo(_, _)
SeqsUpTo(S, n) ==
    IF n = 0 THEN { <<>> }
    ELSE LET shorter == SeqsUpTo(S, n - 1)
         IN shorter \cup { Append(s, x) : s \in { t \in shorter : Len(t) = n - 1 }, x \in S }

ContentLists == SeqsUpTo(Blocks, MaxBlocks)

\* what the primary endpoint can answer to one POST
Statuses == {200, 201, 299, 300, 301, 401, 429, 500}
Bodies == { [json |-> TRUE, content |-> c, text |-> "{reply}"] : c \in ContentLists }
            \cup { [json |-> FALSE, content |-> <<>>, text |-> "overloaded"],
                   \* an empty body, or one that cannot be read (unwrap_or_default)
                   [json |-> FALSE, content |-> <<>>, text |-> ""] }
Responses == { [transport |-> FALSE, status |-> 0, body |-> [json |-> FALSE, content |-> <<>>, text |-> ""]] }
             \cup { [transport |-> TRUE, status |-> s, body |-> b] : s \in Statuses, b \in Bodies }

\* what the local endpoint can answer to the probe and to generate
ProbeOutcomes == { [transport |-> FALSE, status |-> 0] }
                 \cup { [transport |-> TRUE, status |-> s] :
                           s \in {200, 204, 299, 300, 404, 500} }
OllamaOutcomes == { [ok |-> TRUE, response |-> "local text", error |-> ""],
                    [ok |-> TRUE, response |-> "", error |-> ""],
                    [ok |-> FALSE, response |-> "", error |-> "model not found"],
                    [ok |-> FALSE, response |-> "", error |-> "connection refused"] }

\* ------------------------------------------------------------------------
\* Pure functions of the code
\* ------------------------------------------------------------------------
\* StatusCode::is_success
IsSuccess(status) == status >= 200 /\ status <= 299

\* HeaderValue::from_str(&self.api_key) in ClaudeClient::headers
HeaderValueOk(key) ==
    \A i \in 1..Len(key) : key[i] = 9 \/ (key[i] >= 32 /\ key[i] # 127)

\* a variant of Send that takes only status 200 for success
SendOnly200(resp) ==
    IF ~resp.transport THEN Err(Network("transport"))
    ELSE IF resp.status # 200
         THEN IF resp.status = RATE_LIMIT_STATUS
              THEN Err(RateLimited)
              ELSE Err(ApiError(resp.status, resp.body.text))
         ELSE IF resp.body.json
              THEN Ok([content |-> resp.body.content])
              ELSE Err(Network("decode"))

\* ClaudeClient::send once the exchange has completed with resp
Send(resp) ==
    IF ~resp.transport THEN Err(Network("transport"))
    ELSE IF ~IsSuccess(resp.status)
         THEN IF resp.status = RATE_LIMIT_STATUS
              THEN Err(RateLimited)
              ELSE Err(ApiError(resp.status, resp.body.text))
         ELSE IF resp.body.json
              THEN Ok([content |-> resp.body.content])
              ELSE Err(Network("decode"))

\* the for loop of generate_response: index of the first Text block, 0 if none
RECURSIVE FirstTextFrom(_, _)
FirstTextFrom(content, i) ==
    IF i > Len(content) THEN 0
    ELSE IF content[i].type = "text" THEN i
    ELSE FirstTextFrom(content, i + 1)

FirstText(content) == FirstTextFrom(content, 1)

\* if let Some(key) = claude_key
HasKeyAlways(key) == TRUE

HasKey(key) == key.some

\* the bytes of the key the client is built from (key.to_string())
KeyBytes(key) == IF key.some THEN key.val ELSE <<>>

\* a variant of AfterSend that hands a rate-limit error back to the caller
AfterSendPropagate(r) ==
    IF r.tag = "Ok"
    THEN IF FirstText(r.val.content) # 0
         THEN Ok(r.val.content[FirstText(r.val.content)].text)
         ELSE Pending
    ELSE IF r.err = RateLimited THEN r ELSE Pending

\* the match on send's result: the value returned early, or Pending when
\* generate_response falls through to the local tier
AfterSend(r) ==
    IF r.tag = "Ok"
    THEN IF FirstText(r.val.content) # 0
         THEN Ok(r.val.content[FirstText(r.val.content)].text)
         ELSE Pending
    ELSE Pending

\* a variant of IsOllamaRunning that takes any answer for a running service
IsOllamaRunningAnyStatus(out) == out.transport

\* ollama::is_ollama_running once the GET has completed
IsOllamaRunning(out) == IF out.transport THEN IsSuccess(out.status) ELSE FALSE

\* a variant of OllamaGenerate that reports a refused connection as Network
OllamaGenerateNetwork(out) ==
    IF out.ok THEN Ok(out.response)
    ELSE IF out.error = "connection refused" THEN Err(Network(out.error))
    ELSE Err(ApiError(OLLAMA_ERROR_STATUS, out.error))

\* ollama::generate once the exchange has completed
OllamaGenerate(out) ==
    IF out.ok THEN Ok(out.response)
    ELSE Err(ApiError(OLLAMA_ERROR_STATUS, out.error))

\* ------------------------------------------------------------------------
\* generate_response
\* ------------------------------------------------------------------------
CredIdle ==
    /\ env_var = [state |-> "unset", val |-> ""]
    /\ keyring = [available |-> FALSE, locked |-> FALSE, password |-> None]
    /\ config = [dir |-> FALSE, file |-> "missing", toml |-> FALSE,
                 api |-> "absent", field |-> "absent", val |-> ""]
    /\ cop = "none" /\ loaded = Pending /\ stored = Pending
    /\ storeArg = "" /\ storeCalls = 0

SendIdle ==
    /\ sx_key = <<>> /\ sx_tools = <<>> /\ sx_send = Pending
    /\ sx_resp = [transport |-> FALSE, status |-> 0,
                  body |-> [json |-> FALSE, content |-> <<>>, text |-> ""]]
    /\ sx_sendTools = Pending /\ sx_req = Pending

McpIdle ==
    /\ mcp_file = [dir |-> FALSE, file |-> "missing", toml |-> FALSE,
                   servers |-> "absent", records |-> <<>>]
    /\ mcp_loaded = <<>> /\ mcp_op = "none" /\ launched = {}
    /\ connected = Pending /\ connectCalls = 0
    /\ spawnCmd = Pending /\ spawned = Pending

LocalIdle ==
    /\ lx_prompt = "" /\ lx_probe = [transport |-> FALSE, status |-> 0]
    /\ lx_running = Pending /\ lx_genResult = Pending
    /\ lx_gen = [ok |-> FALSE, response |-> "", error |-> ""]

Calls == {1, 2}

PairIdle ==
    /\ sr_script = [c \in Calls |-> <<>>] /\ sr_pos = [c \in Calls |-> 0]
    /\ sr_pc = [c \in Calls |-> "unused"]
    /\ full_response = [c \in Calls |-> ""]
    /\ sr_delivered = [c \in Calls |-> <<>>]
    /\ sr_es = [c \in Calls |-> "none"]
    /\ sr_stream = [c \in Calls |-> Pending]
    /\ sr_result = [c \in Calls |-> Pending]

ShellIdle ==
    /\ command_input = "" /\ ai_response = "" /\ ai_streaming = FALSE
    /\ is_command_bar_visible = FALSE /\ tasks = <<>> /\ shell_op = "unused"

AuxIdle == CredIdle /\ SendIdle /\ McpIdle /\ LocalIdle /\ PairIdle /\ ShellIdle

StreamIdle ==
    /\ api_key = <<>> /\ script = <<>> /\ pos = 0 /\ spc = "unused"
    /\ chunks = <<>> /\ activeChunks = 0 /\ es = "none" /\ sresult = Pending

Init ==
    /\ prompt \in Prompts
    /\ claude_key \in {NoKey} \cup { Some(k) : k \in Credentials }
    /\ pc = "start"
    /\ result = Pending
    /\ clientBuilt = FALSE
    /\ inflight = {}
    /\ primaryCalls = 0 /\ probeCalls = 0 /\ genCalls = 0
    /\ sendResult = Pending /\ probeResult = Pending /\ genResult = Pending
    /\ genPrompt = ""
    /\ StreamIdle
    /\ AuxIdle

\* the local tier is entered: is_ollama_running() is called and awaited
StartProbe ==
    /\ pc' = "probing"
    /\ probeCalls' = probeCalls + 1
    /\ inflight' = (inflight \ {"primary"}) \cup {"probe"}

\* if let Some(key) = claude_key: build the client and issue send
TryClaude ==
    /\ pc = "start"
    /\ HasKey(claude_key)
    /\ clientBuilt' = TRUE
    /\ IF HeaderValueOk(KeyBytes(claude_key))
       THEN /\ pc' = "sending"
            /\ primaryCalls' = primaryCalls + 1
            /\ inflight' = inflight \cup {"primary"}
       ELSE \* headers() unwraps the failed HeaderValue: the task panics
            /\ pc' = "panicked"
            /\ UNCHANGED <<primaryCalls, inflight>>
    /\ UNCHANGED <<prompt, claude_key, result, probeCalls, genCalls,
                   sendResult, probeResult, genResult, genPrompt, streamVars, auxVars>>

\* claude_key is None: straight to the local tier
SkipClaude ==
    /\ pc = "start"
    /\ ~HasKey(claude_key)
    /\ StartProbe
    /\ UNCHANGED <<prompt, claude_key, result, clientBuilt, primaryCalls, genCalls,
                   sendResult, probeResult, genResult, genPrompt, streamVars, auxVars>>

\* a variant of SendDone that re-issues the exchange once when rate limited
SendDoneRetry ==
    /\ pc = "sending"
    /\ \E resp \in Responses :
        LET r == Send(resp) IN
        /\ sendResult' = r
        /\ IF AfterSend(r) # Pending
           THEN /\ result' = AfterSend(r)
                /\ pc' = "done"
                /\ inflight' = inflight \ {"primary"}
                /\ UNCHANGED <<probeCalls, primaryCalls>>
           ELSE IF r = Err(RateLimited) /\ primaryCalls < 2
                THEN /\ pc' = "sending"
                     /\ primaryCalls' = primaryCalls + 1
                     /\ UNCHANGED <<result, probeCalls, inflight>>
                ELSE /\ StartProbe
                     /\ UNCHANGED <<result, primaryCalls>>
    /\ UNCHANGED <<prompt, claude_key, clientBuilt, genCalls,
                   probeResult, genResult, genPrompt, streamVars, auxVars>>

\* send(..).await completes and is matched
SendDone ==
    /\ pc = "sending"
    /\ \E resp \in Responses :
        LET r == Send(resp) IN
        /\ sendResult' = r
        /\ IF AfterSend(r) # Pending
           THEN /\ result' = AfterSend(r)
                /\ pc' = "done"
                /\ inflight' = inflight \ {"primary"}
                /\ UNCHANGED probeCalls
           ELSE /\ StartProbe
                /\ UNCHANGED result
    /\ UNCHANGED <<prompt, claude_key, clientBuilt, primaryCalls, genCalls,
                   probeResult, genResult, genPrompt, streamVars, auxVars>>

\* a variant of ProbeDone that calls generate although the probe failed
ProbeDoneIgnoreProbe ==
    /\ pc = "probing"
    /\ \E out \in ProbeOutcomes :
        /\ probeResult' = Ok(IsOllamaRunning(out))
        /\ pc' = "generating"
        /\ genCalls' = genCalls + 1
        /\ genPrompt' = prompt
        /\ inflight' = (inflight \ {"probe"}) \cup {"generate"}
        /\ UNCHANGED result
    /\ UNCHANGED <<prompt, claude_key, clientBuilt, primaryCalls, probeCalls,
                   sendResult, genResult, streamVars, auxVars>>

\* is_ollama_running().await completes
ProbeDone ==
    /\ pc = "probing"
    /\ \E out \in ProbeOutcomes :
        /\ probeResult' = Ok(IsOllamaRunning(out))
        /\ IF IsOllamaRunning(out)
           THEN /\ pc' = "generating"
                /\ genCalls' = genCalls + 1
                /\ genPrompt' = prompt
                /\ inflight' = (inflight \ {"probe"}) \cup {"generate"}
                /\ UNCHANGED result
           ELSE /\ pc' = "done"
                /\ result' = Err(NoBackend)
                /\ inflight' = inflight \ {"probe"}
                /\ UNCHANGED <<genCalls, genPrompt>>
    /\ UNCHANGED <<prompt, claude_key, clientBuilt, primaryCalls, probeCalls,
                   sendResult, genResult, streamVars, auxVars>>

\* a variant of GenerateDone that reports a failed generate as NoBackend
GenerateDoneNoBackend ==
    /\ pc = "generating"
    /\ \E out \in OllamaOutcomes :
        /\ genResult' = OllamaGenerate(out)
        /\ result' = IF out.ok THEN OllamaGenerate(out) ELSE Err(NoBackend)
    /\ pc' = "done"
    /\ inflight' = inflight \ {"generate"}
    /\ UNCHANGED <<prompt, claude_key, clientBuilt, primaryCalls, probeCalls, genCalls,
                   sendResult, probeResult, genPrompt, streamVars, auxVars>>

\* return ollama::generate(prompt).await
GenerateDone ==
    /\ pc = "generating"
    /\ \E out \in OllamaOutcomes :
        /\ genResult' = OllamaGenerate(out)
        /\ result' = OllamaGenerate(out)
    /\ pc' = "done"
    /\ inflight' = inflight \ {"generate"}
    /\ UNCHANGED <<prompt, claude_key, clientBuilt, primaryCalls, probeCalls, genCalls,
                   sendResult, probeResult, genPrompt, streamVars, auxVars>>

Next == TryClaude \/ SkipClaude \/ SendDone \/ ProbeDone \/ GenerateDone

Spec == Init /\ [][Next]_vars

\* ------------------------------------------------------------------------
\* ClaudeClient::stream
\* ------------------------------------------------------------------------
\* items the EventSource yields: Ok(Event::Open), Ok(Event::Message), Err
Open == [kind |-> "Open"]
Message(name, data) == [kind |-> "Message", event |-> name, data |-> data]
TransportErr == [kind |-> "Err"]

\* payloads: a JSON object with a string at delta.text, a JSON object
\* without one, and text that is not JSON
TextData(t) == [json |-> TRUE, hasText |-> TRUE, text |-> t]
NoTextData == [json |-> TRUE, hasText |-> FALSE, text |-> ""]
BadData == [json |-> FALSE, hasText |-> FALSE, text |-> ""]

Fragments == {"Hel", "lo ", "world"}
Delta(t) == Message("content_block_delta", TextData(t))
Stop == Message("message_stop", NoTextData)
Items == { Delta(t) : t \in Fragments }
         \cup { Message("content_block_delta", NoTextData),
                Message("content_block_delta", BadData),
                Message("content_block_start", TextData("Hel")),
                Message("ping", NoTextData),
                Stop, TransportErr }

\* the connection-open notification comes first when it comes
\* the endpoint answers the streaming request with a non-success status:
\* the event source yields Err(InvalidStatusCode) as its first item
Rejected(status) == [kind |-> "Err", cause |-> "status", status |-> status]
Rejections == { Rejected(RATE_LIMIT_STATUS), Rejected(401) }

Scripts == SeqsUpTo(Items, MaxEvents)
           \cup { <<Open>> \o sc : sc \in SeqsUpTo(Items, MaxEvents - 1) }
           \cup { <<r>> : r \in Rejections }

StreamKeys == { <<115, 107>>, <<115, 10>> }

\* serde_json::from_str(&msg.data) and then data["delta"]["text"].as_str()
DeltaText(data) ==
    IF data.json
    THEN IF data.hasText THEN Some(data.text) ELSE None
    ELSE None

\* a variant of OnEvent that matches the wrong event name for deltas
OnEventWrongName(ev) ==
    IF ev.kind = "Message"
    THEN IF ev.event = "content_block_start"
         THEN [chunk |-> DeltaText(ev.data), close |-> FALSE]
         ELSE IF ev.event = "message_stop"
              THEN [chunk |-> None, close |-> TRUE]
              ELSE [chunk |-> None, close |-> FALSE]
    ELSE IF ev.kind = "Err"
         THEN [chunk |-> None, close |-> TRUE]
         ELSE [chunk |-> None, close |-> FALSE]

\* a variant of OnEvent that treats message_stop as an unrecognized event
OnEventNoStop(ev) ==
    IF ev.kind = "Message"
    THEN IF ev.event = "content_block_delta"
         THEN [chunk |-> DeltaText(ev.data), close |-> FALSE]
         ELSE [chunk |-> None, close |-> FALSE]
    ELSE IF ev.kind = "Err"
         THEN [chunk |-> None, close |-> TRUE]
         ELSE [chunk |-> None, close |-> FALSE]

\* a variant of OnEvent that reads delta.text from a message of any other name
OnEventAnyName(ev) ==
    IF ev.kind = "Message"
    THEN IF ev.event = "message_stop"
         THEN [chunk |-> None, close |-> TRUE]
         ELSE [chunk |-> DeltaText(ev.data), close |-> FALSE]
    ELSE IF ev.kind = "Err"
         THEN [chunk |-> None, close |-> TRUE]
         ELSE [chunk |-> None, close |-> FALSE]

\* the match of the loop body: the fragment handed to on_chunk (if any) and
\* whether the arm does es.close(); break
OnEvent(ev) ==
    IF ev.kind = "Message"
    THEN IF ev.event = "content_block_delta"
         THEN [chunk |-> DeltaText(ev.data), close |-> FALSE]
         ELSE IF ev.event = "message_stop"
              THEN [chunk |-> None, close |-> TRUE]
              ELSE [chunk |-> None, close |-> FALSE]
    ELSE IF ev.kind = "Err"
         THEN [chunk |-> None, close |-> TRUE]
         ELSE [chunk |-> None, close |-> FALSE]

\* a variant of Deliver that records the newest fragment first
DeliverFirst(cs, t) == <<t>> \o cs

\* on_chunk(text.to_string()): the call log of the callback
Deliver(cs, t) == Append(cs, t)

OrchIdle ==
    /\ prompt = "hi" /\ claude_key = NoKey /\ pc = "unused" /\ result = Pending
    /\ clientBuilt = FALSE /\ inflight = {}
    /\ primaryCalls = 0 /\ probeCalls = 0 /\ genCalls = 0
    /\ sendResult = Pending /\ probeResult = Pending /\ genResult = Pending
    /\ genPrompt = ""

InitStream ==
    /\ OrchIdle
    /\ AuxIdle
    /\ api_key \in StreamKeys
    /\ script \in Scripts
    /\ pos = 0
    /\ spc = "start"
    /\ chunks = <<>>
    /\ activeChunks = 0
    /\ es = "none"
    /\ sresult = Pending

\* the request is built (headers()) and handed to EventSource::new
StreamStart ==
    /\ spc = "start"
    /\ IF HeaderValueOk(api_key)
       THEN spc' = "loop" /\ es' = "open"
       ELSE spc' = "panicked" /\ es' = es
    /\ UNCHANGED <<api_key, script, pos, chunks, activeChunks, sresult, orchVars, auxVars>>

\* es.next().await completes and the loop body runs up to the callback
StreamNext ==
    /\ spc = "loop"
    /\ IF pos = Len(script)
       THEN \* the stream yields None: the loop ends, es is dropped, Ok(())
            /\ spc' = "done" /\ es' = "closed" /\ sresult' = Ok("unit")
            /\ UNCHANGED <<pos, chunks, activeChunks>>
       ELSE LET todo == OnEvent(script[pos + 1]) IN
            /\ pos' = pos + 1
            /\ IF todo.chunk.some
               THEN /\ chunks' = Deliver(chunks, todo.chunk.val)
                    /\ activeChunks' = activeChunks + 1
                    /\ spc' = "on_chunk"
                    /\ UNCHANGED <<es, sresult>>
               ELSE IF todo.close
                    THEN \* es.close(); break; Ok(())
                         /\ spc' = "done" /\ es' = "closed" /\ sresult' = Ok("unit")
                         /\ UNCHANGED <<chunks, activeChunks>>
                    ELSE UNCHANGED <<spc, es, sresult, chunks, activeChunks>>
    /\ UNCHANGED <<api_key, script, orchVars, auxVars>>

\* on_chunk returns and the loop awaits the next item
ChunkReturn ==
    /\ spc = "on_chunk"
    /\ activeChunks' = activeChunks - 1
    /\ spc' = "loop"
    /\ UNCHANGED <<api_key, script, pos, chunks, es, sresult, orchVars, auxVars>>

\* a variant of StreamCancel in which the connection outlives the future
StreamCancelLeak ==
    /\ spc = "loop"
    /\ spc' = "cancelled"
    /\ UNCHANGED <<api_key, script, pos, chunks, activeChunks, es, sresult,
                   orchVars, auxVars>>

\* the caller drops the future while it awaits es.next(): the locals of
\* stream, es among them, are dropped
StreamCancel ==
    /\ spc = "loop"
    /\ spc' = "cancelled"
    /\ es' = "closed"
    /\ UNCHANGED <<api_key, script, pos, chunks, activeChunks, sresult,
                   orchVars, auxVars>>

NextStream == StreamStart \/ StreamNext \/ ChunkReturn \/ StreamCancel

SpecStream == InitStream /\ [][NextStream]_vars

\* the items yielded so far
Received == SubSeq(script, 1, pos)

\* ------------------------------------------------------------------------
\* load_api_key and store_api_key
\* ------------------------------------------------------------------------
EnvStates == { [state |-> "unset", val |-> ""],
               [state |-> "notunicode", val |-> ""],
               [state |-> "value", val |-> "abc"] }

KeyringStates == { [available |-> FALSE, locked |-> FALSE, password |-> None] }
                 \cup { [available |-> TRUE, locked |-> l, password |-> pw] :
                           l \in BOOLEAN, pw \in {None, Some("xyz")} }

\* config.toml: no config dir; file missing; file not readable as UTF-8;
\* not TOML; TOML without [api]; api not a table; [api] without
\* anthropic_key; anthropic_key not a string; anthropic_key a string
ConfigStates ==
    { [dir |-> FALSE, file |-> "missing", toml |-> FALSE, api |-> "absent", field |-> "absent", val |-> ""],
      [dir |-> TRUE, file |-> "missing", toml |-> FALSE, api |-> "absent", field |-> "absent", val |-> ""],
      [dir |-> TRUE, file |-> "unreadable", toml |-> FALSE, api |-> "absent", field |-> "absent", val |-> ""],
      [dir |-> TRUE, file |-> "text", toml |-> FALSE, api |-> "absent", field |-> "absent", val |-> ""],
      [dir |-> TRUE, file |-> "text", toml |-> TRUE, api |-> "absent", field |-> "absent", val |-> ""],
      [dir |-> TRUE, file |-> "text", toml |-> TRUE, api |-> "scalar", field |-> "absent", val |-> ""],
      [dir |-> TRUE, file |-> "text", toml |-> TRUE, api |-> "table", field |-> "absent", val |-> ""],
      [dir |-> TRUE, file |-> "text", toml |-> TRUE, api |-> "table", field |-> "integer", val |-> ""],
      [dir |-> TRUE, file |-> "text", toml |-> TRUE, api |-> "table", field |-> "string", val |-> "cfg"] }

StoreKeys == {"abc", "new"}

Ret(v) == [tag |-> "Ret", val |-> v]
Panic == [tag |-> "Panic"]

\* std::env::var("ANTHROPIC_API_KEY")
EnvVar(e) == IF e.state = "value" THEN Some(e.val) ELSE None

\* keyring::Entry::new(..) and then entry.get_password()
GetPassword(kr) ==
    IF kr.available
    THEN IF kr.locked THEN None ELSE kr.password
    ELSE None

\* config["api"]["anthropic_key"].as_str() on the parsed toml::Value; the
\* Index of toml::Value panics on a key that is not there
ConfigKey(cfg) ==
    IF cfg.api = "table"
    THEN IF cfg.field = "string" THEN Ret(Some(cfg.val))
         ELSE IF cfg.field = "integer" THEN Ret(None)
         ELSE Panic
    ELSE Panic

\* the config-file tail of load_api_key
FromConfig(cfg) ==
    IF ~cfg.dir THEN Ret(None)
    ELSE IF cfg.file # "text" THEN Ret(None)
    ELSE IF ~cfg.toml THEN Ret(None)
    ELSE ConfigKey(cfg)

\* a variant of LoadApiKey that asks the keyring before the environment
LoadApiKeyStoreFirst(e, kr, cfg) ==
    IF GetPassword(kr).some THEN Ret(GetPassword(kr))
    ELSE IF EnvVar(e).some THEN Ret(EnvVar(e))
    ELSE FromConfig(cfg)

\* load_api_key
LoadApiKey(e, kr, cfg) ==
    IF EnvVar(e).some THEN Ret(EnvVar(e))
    ELSE IF GetPassword(kr).some THEN Ret(GetPassword(kr))
    ELSE FromConfig(cfg)

InitCred ==
    /\ OrchIdle
    /\ LocalIdle
    /\ StreamIdle
    /\ SendIdle
    /\ McpIdle
    /\ PairIdle
    /\ ShellIdle
    /\ env_var \in EnvStates
    /\ keyring \in KeyringStates
    /\ config \in ConfigStates
    /\ cop = "none" /\ loaded = Pending /\ stored = Pending
    /\ storeArg = "" /\ storeCalls = 0

\* a call of load_api_key
LoadStep ==
    /\ loaded' = LoadApiKey(env_var, keyring, config)
    /\ cop' = "load"
    /\ UNCHANGED <<env_var, keyring, config, stored, storeArg, storeCalls,
                   orchVars, streamVars, sendVars, mcpVars, localVars, pairVars, shellVars>>

\* a variant of StoreStep that also records the key in config.toml
StoreStepWritesConfig ==
    /\ storeCalls < MaxStores
    /\ \E k \in StoreKeys :
        /\ storeArg' = k
        /\ IF keyring.available /\ ~keyring.locked
           THEN /\ keyring' = [keyring EXCEPT !.password = Some(k)]
                /\ stored' = Ok("unit")
           ELSE /\ stored' = Err("keyring")
                /\ UNCHANGED keyring
        /\ config' = [dir |-> TRUE, file |-> "text", toml |-> TRUE,
                      api |-> "table", field |-> "string", val |-> k]
    /\ storeCalls' = storeCalls + 1
    /\ cop' = "store"
    /\ UNCHANGED <<env_var, loaded, orchVars, streamVars, sendVars, mcpVars, localVars, pairVars, shellVars>>

\* a variant of StoreStep that writes an entry load_api_key does not read
StoreStepOtherEntry ==
    /\ storeCalls < MaxStores
    /\ \E k \in StoreKeys :
        /\ storeArg' = k
        /\ IF keyring.available /\ ~keyring.locked
           THEN stored' = Ok("unit")
           ELSE stored' = Err("keyring")
    /\ storeCalls' = storeCalls + 1
    /\ cop' = "store"
    /\ UNCHANGED <<env_var, keyring, config, loaded, orchVars, streamVars, sendVars, mcpVars, localVars, pairVars, shellVars>>

\* a call of store_api_key(k)
StoreStep ==
    /\ storeCalls < MaxStores
    /\ \E k \in StoreKeys :
        /\ storeArg' = k
        /\ IF keyring.available /\ ~keyring.locked
           THEN /\ keyring' = [keyring EXCEPT !.password = Some(k)]
                /\ stored' = Ok("unit")
           ELSE \* Entry::new or set_password fails and the error is returned
                /\ stored' = Err("keyring")
                /\ UNCHANGED keyring
    /\ storeCalls' = storeCalls + 1
    /\ cop' = "store"
    /\ UNCHANGED <<env_var, config, loaded, orchVars, streamVars, sendVars, mcpVars, localVars, pairVars, shellVars>>

NextCred == LoadStep \/ StoreStep

SpecCred == InitCred /\ [][NextCred]_vars

\* ------------------------------------------------------------------------
\* ClaudeClient::send and ClaudeClient::send_with_tools
\* ------------------------------------------------------------------------
\* struct Tool, by name
ToolNames == {"launch_app", "system_command", "read_file"}
ToolLists == SeqsUpTo(ToolNames, MaxTools)

\* a variant of SendWithTools that reports a rate limit as an ApiError
SendWithToolsNoRateLimit(resp, tools) ==
    IF ~resp.transport THEN Err(Network("transport"))
    ELSE IF ~IsSuccess(resp.status)
         THEN Err(ApiError(resp.status, resp.body.text))
         ELSE IF resp.body.json
              THEN Ok([content |-> resp.body.content])
              ELSE Err(Network("decode"))

\* ClaudeClient::send_with_tools once the exchange has completed with resp
SendWithTools(resp, tools) ==
    IF ~resp.transport THEN Err(Network("transport"))
    ELSE IF ~IsSuccess(resp.status)
         THEN IF resp.status = RATE_LIMIT_STATUS
              THEN Err(RateLimited)
              ELSE Err(ApiError(resp.status, resp.body.text))
         ELSE IF resp.body.json
              THEN Ok([content |-> resp.body.content])
              ELSE Err(Network("decode"))

InitSend ==
    /\ OrchIdle
    /\ LocalIdle
    /\ StreamIdle
    /\ CredIdle
    /\ McpIdle
    /\ PairIdle
    /\ ShellIdle
    /\ sx_key \in StreamKeys
    /\ sx_resp \in Responses
    /\ sx_tools \in ToolLists
    /\ sx_send = Pending
    /\ sx_sendTools = Pending
    /\ sx_req = Pending

\* client.send(messages).await
DoSend ==
    /\ sx_send = Pending
    /\ IF HeaderValueOk(sx_key)
       THEN /\ sx_req' = [tools |-> None]
            /\ sx_send' = Send(sx_resp)
       ELSE \* headers() unwraps the failed HeaderValue before any request
            /\ sx_send' = Panic
            /\ UNCHANGED sx_req
    /\ UNCHANGED <<sx_key, sx_resp, sx_tools, sx_sendTools,
                   orchVars, streamVars, credVars, mcpVars, localVars, pairVars, shellVars>>

\* client.send_with_tools(messages, tools).await
DoSendWithTools ==
    /\ sx_sendTools = Pending
    /\ IF HeaderValueOk(sx_key)
       THEN /\ sx_req' = [tools |-> Some(sx_tools)]
            /\ sx_sendTools' = SendWithTools(sx_resp, sx_tools)
       ELSE /\ sx_sendTools' = Panic
            /\ UNCHANGED sx_req
    /\ UNCHANGED <<sx_key, sx_resp, sx_tools, sx_send,
                   orchVars, streamVars, credVars, mcpVars, localVars, pairVars, shellVars>>

NextSend == DoSend \/ DoSendWithTools

SpecSend == InitSend /\ [][NextSend]_vars

\* ------------------------------------------------------------------------
\* load_mcp_configs and connect_mcp_server
\* ------------------------------------------------------------------------
\* entries of the servers array as written in mcp-servers.toml; one that
\* is not wellformed lacks a field of McpServerConfig
RawServers ==
    { [wellformed |-> TRUE, name |-> "fs", command |-> "mcp-fs",
       args |-> <<"--root">>, enabled |-> TRUE],
      [wellformed |-> TRUE, name |-> "git", command |-> "mcp-git",
       args |-> <<>>, enabled |-> FALSE],
      [wellformed |-> FALSE, name |-> "web", command |-> "mcp-web",
       args |-> <<>>, enabled |-> TRUE] }

\* struct McpServerConfig
McpServerConfig(raw) ==
    [name |-> raw.name, command |-> raw.command, args |-> raw.args,
     enabled |-> raw.enabled]

\* no config dir; file missing; file unreadable; not TOML; TOML without
\* servers; servers not an array; servers an array of entries
McpFiles ==
    { [dir |-> FALSE, file |-> "missing", toml |-> FALSE, servers |-> "absent", records |-> <<>>],
      [dir |-> TRUE, file |-> "missing", toml |-> FALSE, servers |-> "absent", records |-> <<>>],
      [dir |-> TRUE, file |-> "unreadable", toml |-> FALSE, servers |-> "absent", records |-> <<>>],
      [dir |-> TRUE, file |-> "text", toml |-> FALSE, servers |-> "absent", records |-> <<>>],
      [dir |-> TRUE, file |-> "text", toml |-> TRUE, servers |-> "absent", records |-> <<>>],
      [dir |-> TRUE, file |-> "text", toml |-> TRUE, servers |-> "scalar", records |-> <<>>] }
    \cup { [dir |-> TRUE, file |-> "text", toml |-> TRUE, servers |-> "array", records |-> rs] :
             rs \in SeqsUpTo(RawServers, MaxServers) }

RECURSIVE MapConfigs(_)
MapConfigs(rs) ==
    IF rs = <<>> THEN <<>>
    ELSE <<McpServerConfig(rs[1])>> \o MapConfigs(Tail(rs))

RECURSIVE WellformedOnly(_)
WellformedOnly(rs) ==
    IF rs = <<>> THEN <<>>
    ELSE IF rs[1].wellformed THEN <<rs[1]>> \o WellformedOnly(Tail(rs))
    ELSE WellformedOnly(Tail(rs))

\* toml::from_str::<McpConfig>(&content): servers defaults to empty, and
\* one entry that does not deserialize fails the whole document
ParseMcpConfig(f) ==
    IF ~f.toml THEN Err("toml")
    ELSE IF f.servers = "absent" THEN Ok(<<>>)
    ELSE IF f.servers = "scalar" THEN Err("toml")
    ELSE IF \A i \in 1..Len(f.records) : f.records[i].wellformed
         THEN Ok(MapConfigs(f.records))
         ELSE Err("toml")

\* a variant of LoadMcpConfigs that keeps the entries that do deserialize
LoadMcpConfigsSkipBad(f) ==
    IF ~f.dir THEN <<>>
    ELSE IF f.file # "text" THEN <<>>
    ELSE IF f.toml /\ f.servers = "array"
         THEN MapConfigs(WellformedOnly(f.records))
         ELSE <<>>

\* load_mcp_configs
LoadMcpConfigs(f) ==
    IF ~f.dir THEN <<>>
    ELSE IF f.file # "text" THEN <<>>
    ELSE IF ParseMcpConfig(f).tag = "Ok" THEN ParseMcpConfig(f).val
    ELSE <<>>

\* what starting `command args.. --version` can give: the command cannot
\* be started, or it ran and exited with a status
SpawnOutcomes == { [started |-> FALSE, exit |-> 0, tools |-> <<>>],
                   [started |-> TRUE, exit |-> 0, tools |-> <<>>],
                   [started |-> TRUE, exit |-> 0, tools |-> <<"read_file">>],
                   [started |-> TRUE, exit |-> 1, tools |-> <<>>] }

\* Command::new(command).args(args).arg("--version")
Argv(args) == Append(args, "--version")

\* connect_mcp_server once Command::output() has completed
ConnectMcpServer(out) ==
    IF out.started THEN Ok(<<>>) ELSE Err("io")

InitMcp ==
    /\ OrchIdle
    /\ LocalIdle
    /\ StreamIdle
    /\ CredIdle
    /\ SendIdle
    /\ PairIdle
    /\ ShellIdle
    /\ mcp_file \in McpFiles
    /\ mcp_loaded = <<>> /\ mcp_op = "none" /\ launched = {}
    /\ connected = Pending /\ connectCalls = 0
    /\ spawnCmd = Pending /\ spawned = Pending

\* a call of load_mcp_configs
LoadConfigsStep ==
    /\ mcp_loaded' = LoadMcpConfigs(mcp_file)
    /\ mcp_op' = "load"
    /\ UNCHANGED <<mcp_file, launched, connected, connectCalls, spawnCmd, spawned,
                   orchVars, streamVars, credVars, sendVars, localVars, pairVars, shellVars>>

\* a call of connect_mcp_server(cfg.command, cfg.args) for a loaded record
ConnectStep ==
    /\ connectCalls < MaxConnects
    /\ \E i \in 1..Len(mcp_loaded), out \in SpawnOutcomes :
        /\ connected' = ConnectMcpServer(out)
        /\ spawnCmd' = [provider |-> mcp_loaded[i].name,
                        command |-> mcp_loaded[i].command,
                        argv |-> Argv(mcp_loaded[i].args)]
        /\ spawned' = out
        /\ launched' = IF out.started
                        THEN launched \cup {mcp_loaded[i].command}
                        ELSE launched
    /\ connectCalls' = connectCalls + 1
    /\ mcp_op' = "connect"
    /\ UNCHANGED <<mcp_file, mcp_loaded, orchVars, streamVars, credVars, sendVars, localVars, pairVars, shellVars>>

NextMcp == LoadConfigsStep \/ ConnectStep

SpecMcp == InitMcp /\ [][NextMcp]_vars

\* ------------------------------------------------------------------------
\* ollama::is_ollama_running and ollama::generate on their own
\* ------------------------------------------------------------------------
InitLocal ==
    /\ OrchIdle
    /\ StreamIdle
    /\ CredIdle
    /\ SendIdle
    /\ McpIdle
    /\ PairIdle
    /\ ShellIdle
    /\ lx_prompt \in Prompts
    /\ lx_probe \in ProbeOutcomes
    /\ lx_gen \in OllamaOutcomes
    /\ lx_running = Pending
    /\ lx_genResult = Pending

\* is_ollama_running().await
DoProbe ==
    /\ lx_running = Pending
    /\ lx_running' = Ok(IsOllamaRunning(lx_probe))
    /\ UNCHANGED <<lx_prompt, lx_probe, lx_gen, lx_genResult,
                   orchVars, streamVars, credVars, sendVars, mcpVars, pairVars, shellVars>>

\* generate(prompt).await
DoGenerate ==
    /\ lx_genResult = Pending
    /\ lx_genResult' = OllamaGenerate(lx_gen)
    /\ UNCHANGED <<lx_prompt, lx_probe, lx_gen, lx_running,
                   orchVars, streamVars, credVars, sendVars, mcpVars, pairVars, shellVars>>

NextLocal == DoProbe \/ DoGenerate

SpecLocal == InitLocal /\ [][NextLocal]_vars

\* ------------------------------------------------------------------------
\* stream_response, two calls running concurrently
\* ------------------------------------------------------------------------
PairItems == { Delta("Hel"), Delta("lo "), Stop, TransportErr }
PairScripts == SeqsUpTo(PairItems, MaxPairEvents)

\* EventSource::new returns the event source, or an error when the request
\* cannot be cloned
OpenOutcomes == {"opened", "cannot_clone"}

\* a variant of PushStr with one buffer behind every call
PushStrShared(bufs, c, chunk) == [d \in Calls |-> bufs[d] \o chunk]

\* the callback of stream_response: full_response.push_str(&chunk)
PushStr(bufs, c, chunk) == [bufs EXCEPT ![c] = @ \o chunk]

\* a variant of StreamResponse that returns the buffer whatever stream returned
StreamResponseAlwaysOk(sres, full) == Ok(full)

\* client.stream(..).await? and then Ok(full_response)
StreamResponse(sres, full) == IF sres.tag = "Ok" THEN Ok(full) ELSE sres

InitPair ==
    /\ OrchIdle
    /\ StreamIdle
    /\ CredIdle
    /\ SendIdle
    /\ McpIdle
    /\ LocalIdle
    /\ ShellIdle
    /\ sr_script \in [Calls -> PairScripts]
    /\ sr_pos = [c \in Calls |-> 0]
    /\ sr_pc = [c \in Calls |-> "start"]
    /\ full_response = [c \in Calls |-> ""]
    /\ sr_delivered = [c \in Calls |-> <<>>]
    /\ sr_es = [c \in Calls |-> "none"]
    /\ sr_stream = [c \in Calls |-> Pending]
    /\ sr_result = [c \in Calls |-> Pending]

\* call c builds its client and its empty buffer and enters stream, which
\* opens the event source
SrStart(c) ==
    /\ sr_pc[c] = "start"
    /\ \E o \in OpenOutcomes :
        IF o = "opened"
        THEN /\ sr_pc' = [sr_pc EXCEPT ![c] = "loop"]
             /\ sr_es' = [sr_es EXCEPT ![c] = "open"]
             /\ UNCHANGED sr_stream
        ELSE /\ sr_pc' = [sr_pc EXCEPT ![c] = "returned"]
             /\ sr_stream' = [sr_stream EXCEPT ![c] = Err(Network("cannot clone request"))]
             /\ UNCHANGED sr_es
    /\ full_response' = [full_response EXCEPT ![c] = ""]
    /\ UNCHANGED <<sr_script, sr_pos, sr_delivered, sr_result,
                   orchVars, streamVars, credVars, sendVars, mcpVars, localVars, shellVars>>

\* call c takes the next item of its event source; a text delta runs the
\* callback before the next item is awaited
SrEvent(c) ==
    /\ sr_pc[c] = "loop"
    /\ IF sr_pos[c] = Len(sr_script[c])
       THEN /\ sr_pc' = [sr_pc EXCEPT ![c] = "returned"]
            /\ sr_es' = [sr_es EXCEPT ![c] = "closed"]
            /\ sr_stream' = [sr_stream EXCEPT ![c] = Ok("unit")]
            /\ UNCHANGED <<sr_pos, sr_delivered, full_response>>
       ELSE LET todo == OnEvent(sr_script[c][sr_pos[c] + 1]) IN
            /\ sr_pos' = [sr_pos EXCEPT ![c] = @ + 1]
            /\ IF todo.chunk.some
               THEN /\ sr_delivered' = [sr_delivered EXCEPT ![c] = Deliver(@, todo.chunk.val)]
                    /\ full_response' = PushStr(full_response, c, todo.chunk.val)
                    /\ UNCHANGED <<sr_pc, sr_es, sr_stream>>
               ELSE IF todo.close
                    THEN /\ sr_pc' = [sr_pc EXCEPT ![c] = "returned"]
                         /\ sr_es' = [sr_es EXCEPT ![c] = "closed"]
                         /\ sr_stream' = [sr_stream EXCEPT ![c] = Ok("unit")]
                         /\ UNCHANGED <<sr_delivered, full_response>>
                    ELSE UNCHANGED <<sr_pc, sr_es, sr_stream, sr_delivered, full_response>>
    /\ UNCHANGED <<sr_script, sr_result,
                   orchVars, streamVars, credVars, sendVars, mcpVars, localVars, shellVars>>

\* stream has returned to call c, which returns in turn
SrReturn(c) ==
    /\ sr_pc[c] = "returned"
    /\ sr_pc' = [sr_pc EXCEPT ![c] = "done"]
    /\ sr_result' = [sr_result EXCEPT ![c] = StreamResponse(sr_stream[c], full_response[c])]
    /\ UNCHANGED <<sr_script, sr_pos, full_response, sr_delivered, sr_es, sr_stream,
                   orchVars, streamVars, credVars, sendVars, mcpVars, localVars, shellVars>>

NextPair == \E c \in Calls : SrStart(c) \/ SrEvent(c) \/ SrReturn(c)

SpecPair == InitPair /\ [][NextPair]_vars

\* ------------------------------------------------------------------------
\* AiUiShell::update, the command bar
\* ------------------------------------------------------------------------
\* what the user can type into the input field
Inputs == {"", "2+2", "capital"}

\* what a generate_response task can resolve to: the reply text, NoBackend,
\* or the local backend's ApiError
TaskOutcomes == { Ok("four"), Ok("Paris"), Ok(""), Err(NoBackend),
                  Err(ApiError(OLLAMA_ERROR_STATUS, "model not found")) }

\* Display of a u16 status
StatusText(status) == IF status = OLLAMA_ERROR_STATUS THEN "500" ELSE "429"

\* AiError's Display (the #[error(..)] strings); the dash of the ApiError
\* format is written "-" here
ErrorToString(e) ==
    IF e.kind = "NoBackend" THEN "No AI backend available"
    ELSE IF e.kind = "ApiError"
         THEN "API error: " \o StatusText(e.status) \o " - " \o e.message
         ELSE IF e.kind = "RateLimited" THEN "Rate limited"
              ELSE "Network error"

\* the text the handlers of AiResponseComplete and AiError put in ai_response
Shown(r) == IF r.tag = "Ok" THEN r.val ELSE "Error: " \o ErrorToString(r.err)

Running == { i \in 1..Len(tasks) : tasks[i].result = Pending }

InitShell ==
    /\ OrchIdle
    /\ StreamIdle
    /\ CredIdle
    /\ SendIdle
    /\ McpIdle
    /\ LocalIdle
    /\ PairIdle
    /\ command_input = ""
    /\ ai_response = ""
    /\ ai_streaming = FALSE
    /\ is_command_bar_visible = FALSE
    /\ tasks = <<>>
    /\ shell_op = "new"

\* Message::CommandInputChanged, sent by the input field of the command bar
CommandInputChanged ==
    /\ is_command_bar_visible
    /\ \E input \in Inputs : command_input' = input
    /\ shell_op' = "CommandInputChanged"
    /\ UNCHANGED <<ai_response, ai_streaming, is_command_bar_visible, tasks,
                   orchVars, streamVars, credVars, sendVars, mcpVars, localVars, pairVars>>

\* Message::ExecuteCommand, sent when the input field is submitted
ExecuteCommand ==
    /\ is_command_bar_visible
    /\ Len(tasks) < MaxCommands
    /\ IF command_input = ""
       THEN UNCHANGED <<ai_response, ai_streaming, tasks>>
       ELSE /\ ai_response' = ""
            /\ ai_streaming' = TRUE
            /\ tasks' = Append(tasks, [prompt |-> command_input, result |-> Pending])
    /\ shell_op' = "ExecuteCommand"
    /\ UNCHANGED <<command_input, is_command_bar_visible,
                   orchVars, streamVars, credVars, sendVars, mcpVars, localVars, pairVars>>

\* a task resolves to Ok(response): Message::AiResponseComplete
AiResponseComplete ==
    /\ \E i \in Running : \E r \in { o \in TaskOutcomes : o.tag = "Ok" } :
        /\ tasks' = [tasks EXCEPT ![i].result = r]
        /\ ai_response' = r.val
    /\ ai_streaming' = FALSE
    /\ shell_op' = "AiResponseComplete"
    /\ UNCHANGED <<command_input, is_command_bar_visible,
                   orchVars, streamVars, credVars, sendVars, mcpVars, localVars, pairVars>>

\* a task resolves to Err(e): Message::AiError(e.to_string())
AiError ==
    /\ \E i \in Running : \E r \in { o \in TaskOutcomes : o.tag = "Err" } :
        /\ tasks' = [tasks EXCEPT ![i].result = r]
        /\ ai_response' = "Error: " \o ErrorToString(r.err)
    /\ ai_streaming' = FALSE
    /\ shell_op' = "AiError"
    /\ UNCHANGED <<command_input, is_command_bar_visible,
                   orchVars, streamVars, credVars, sendVars, mcpVars, localVars, pairVars>>

\* Message::ToggleCommandBar, sent by the taskbar's button
ToggleCommandBar ==
    /\ is_command_bar_visible' = ~is_command_bar_visible
    /\ IF is_command_bar_visible
       THEN command_input' = "" /\ ai_response' = ""
       ELSE UNCHANGED <<command_input, ai_response>>
    /\ shell_op' = "ToggleCommandBar"
    /\ UNCHANGED <<ai_streaming, tasks,
                   orchVars, streamVars, credVars, sendVars, mcpVars, localVars, pairVars>>

NextShell ==
    \/ CommandInputChanged
    \/ ExecuteCommand
    \/ AiResponseComplete
    \/ AiError
    \/ ToggleCommandBar

SpecShell == InitShell /\ [][NextShell]_vars

\* ------------------------------------------------------------------------
\* Properties of generate_response
\* ------------------------------------------------------------------------
\* C1: when the primary exchange succeeded, generate_response returns the
\* text of the first Text block of the reply and the local backend is never
\* contacted (no probe, no generate), whatever the reply's content list is.
C1_PrimarySuccessNeverLocal ==
    sendResult.tag = "Ok" =>
        /\ probeCalls = 0 /\ genCalls = 0
        /\ FirstText(sendResult.val.content) # 0 =>
              /\ pc = "done"
              /\ result = Ok(sendResult.val.content[FirstText(sendResult.val.content)].text)

\* C2: without a credential no primary client is built and no primary
\* exchange is issued; when the probe succeeds the call returns what local
\* generate produced for the same prompt.
C2_NoKeyLocalOnly ==
    claude_key = NoKey =>
        /\ ~clientBuilt /\ primaryCalls = 0 /\ sendResult = Pending
        /\ "primary" \notin inflight
        /\ (pc = "done" /\ probeResult = Ok(TRUE)) =>
              /\ genCalls = 1 /\ genPrompt = prompt
              /\ result = genResult
              /\ genResult.tag = "Ok" => result.tag = "Ok"

C2_Witness ==
    /\ claude_key = NoKey /\ pc = "done" /\ probeResult = Ok(TRUE)
    /\ result = Ok("local text") /\ genPrompt = prompt

\* C3: with a credential, a primary exchange that failed with any error and
\* a probe that reports unavailable, the call returns NoBackend and local
\* generate is never invoked.
C3_PrimaryFailsLocalDown ==
    (claude_key # NoKey /\ sendResult.tag = "Err" /\ probeResult = Ok(FALSE)) =>
        /\ pc = "done"
        /\ result = Err(NoBackend)
        /\ genCalls = 0 /\ genResult = Pending

C3_Witness ==
    /\ claude_key # NoKey /\ sendResult = Err(RateLimited)
    /\ probeResult = Ok(FALSE) /\ pc = "done" /\ result = Err(NoBackend)

\* C4: every primary error is followed by the probe of the local backend and
\* is never the result of the call; the only errors generate_response
\* returns are NoBackend and the error of local generate.
C4_UnconditionalFallback ==
    /\ sendResult.tag = "Err" =>
          /\ probeCalls = 1
          /\ pc \in {"probing", "generating", "done"}
          /\ result # sendResult
    /\ (pc = "done" /\ result.tag = "Err") =>
          \/ result = Err(NoBackend)
          \/ genCalls = 1 /\ genResult.tag = "Err" /\ result = genResult

C4_Witness ==
    /\ sendResult = Err(ApiError(500, "overloaded")) /\ pc = "done"
    /\ genCalls = 1 /\ result = Err(ApiError(OLLAMA_ERROR_STATUS, "model not found"))

\* C5: once the probe returned true the result of the call is exactly the
\* result of local generate, success or error; a failed generate is returned
\* as its ApiError, not as NoBackend, and nothing further is attempted.
C5_LocalResultVerbatim ==
    (probeResult = Ok(TRUE) /\ pc = "done") =>
        /\ result = genResult
        /\ result # Err(NoBackend)
        /\ genResult.tag = "Err" => result.err.kind = "ApiError"
        /\ genCalls = 1 /\ probeCalls = 1 /\ inflight = {}

C5_Witness ==
    /\ probeResult = Ok(TRUE) /\ pc = "done" /\ genResult.tag = "Err"
    /\ result = Err(ApiError(OLLAMA_ERROR_STATUS, "model not found"))

\* C6: one call issues at most one primary exchange, one probe and one
\* generate; the probe starts only after the primary exchange (if any) has
\* completed, and the two backends are never awaited at the same time.
C6_StrictSequence ==
    /\ primaryCalls <= 1 /\ probeCalls <= 1 /\ genCalls <= 1
    /\ Cardinality(inflight) <= 1
    /\ (probeCalls > 0 /\ primaryCalls > 0) => sendResult # Pending
    /\ genCalls > 0 => probeResult = Ok(TRUE)
    /\ pc = "sending" <=> inflight = {"primary"}

C6_Witness ==
    /\ pc = "done" /\ primaryCalls = 1 /\ probeCalls = 1 /\ genCalls = 1
    /\ sendResult.tag = "Err" /\ inflight = {}

\* ------------------------------------------------------------------------
\* Properties of stream
\* ------------------------------------------------------------------------
\* the delta.text fragments of the content_block_delta events of evs, in order
RECURSIVE TextsOf(_)
TextsOf(evs) ==
    IF evs = <<>> THEN <<>>
    ELSE LET ev == evs[1]
             rest == TextsOf(Tail(evs))
         IN IF ev.kind = "Message" /\ ev.event = "content_block_delta"
               /\ ev.data.json /\ ev.data.hasText
            THEN <<ev.data.text>> \o rest
            ELSE rest

IsPrefix(a, b) == Len(a) <= Len(b) /\ SubSeq(b, 1, Len(a)) = a

\* n content_block_delta events with text fragments, then message_stop
DeltasThenStop(sc) ==
    /\ Len(sc) >= 1
    /\ sc[Len(sc)] = Stop
    /\ \A i \in 1..(Len(sc) - 1) : \E t \in Fragments : sc[i] = Delta(t)

\* C7: for a script of n text deltas followed by message_stop, stream calls
\* on_chunk exactly n times with the fragments in script order and returns
\* success.
C7_DeltasThenStop ==
    (DeltasThenStop(script) /\ spc = "done") =>
        /\ Len(chunks) = Len(script) - 1
        /\ \A i \in 1..(Len(script) - 1) : chunks[i] = script[i].data.text
        /\ sresult = Ok("unit")

C7_Witness ==
    /\ script = <<Delta("Hel"), Delta("lo "), Delta("world"), Stop>>
    /\ spc = "done" /\ chunks = <<"Hel", "lo ", "world">> /\ sresult = Ok("unit")

\* C8: when the event source yields a transport error after k fragments
\* were delivered, on_chunk has been called exactly k times and stream
\* returns a Network-class error, not success.
C8_TransportErrorReported ==
    (spc = "done" /\ pos >= 1 /\ script[pos] = TransportErr) =>
        /\ Len(chunks) = Len(TextsOf(SubSeq(script, 1, pos - 1)))
        /\ sresult.tag = "Err"
        /\ sresult.err.kind = "Network"

\* C9: the fragments passed to on_chunk are, in order, the delta.text values
\* of the content_block_delta events received so far; the call log only
\* grows by appending, and at most one on_chunk call is in progress.
C9_OrderedDelivery ==
    /\ [](chunks = TextsOf(Received) /\ activeChunks <= 1)
    /\ [][IsPrefix(chunks, chunks') /\ Len(chunks') <= Len(chunks) + 1]_vars

C9_Witness ==
    /\ spc = "done" /\ pos = 4 /\ script[pos] = TransportErr
    /\ chunks = <<"lo ", "Hel">>

\* C10: a message_stop event closes the connection and ends stream with
\* success; no item after it is taken from the event source, so on_chunk is
\* not called for deltas the server would push after it.
C10_StopTerminates ==
    \A i \in 1..pos :
        script[i] = Stop =>
            /\ i = pos
            /\ spc = "done" /\ sresult = Ok("unit") /\ es = "closed"
            /\ activeChunks = 0
            /\ chunks = TextsOf(SubSeq(script, 1, i - 1))

C10_Witness ==
    /\ spc = "done" /\ pos = 2 /\ script[1] = Delta("Hel") /\ script[2] = Stop
    /\ Len(script) = 3 /\ script[3] = Delta("world")
    /\ chunks = <<"Hel">> /\ sresult = Ok("unit") /\ es = "closed"

\* an item stream gives no meaning to: the connection-open notification or a
\* message named neither content_block_delta nor message_stop
Ignorable(ev) ==
    \/ ev.kind = "Open"
    \/ ev.kind = "Message" /\ ev.event \notin {"content_block_delta", "message_stop"}

RECURSIVE Strip(_)
Strip(evs) ==
    IF evs = <<>> THEN <<>>
    ELSE IF Ignorable(evs[1]) THEN Strip(Tail(evs))
    ELSE <<evs[1]>> \o Strip(Tail(evs))

\* the items of evs before the first message_stop or transport error
RECURSIVE UpToEnd(_)
UpToEnd(evs) ==
    IF evs = <<>> THEN <<>>
    ELSE IF evs[1] = Stop \/ evs[1] = TransportErr THEN <<>>
    ELSE <<evs[1]>> \o UpToEnd(Tail(evs))

\* C11: an ignorable item taken from the event source calls no on_chunk,
\* does not end the stream and leaves the result and the connection alone;
\* the fragments delivered by a finished call are those of the script with
\* its ignorable items removed.
C11_UnknownEventsIgnored ==
    /\ [][(pos' = pos + 1 /\ Ignorable(script[pos + 1])) =>
            (chunks' = chunks /\ spc' = "loop" /\ sresult' = sresult
             /\ es' = es /\ activeChunks' = activeChunks)]_vars
    /\ [](spc = "done" => chunks = TextsOf(UpToEnd(Strip(script))))

C11_Witness ==
    /\ spc = "done" /\ pos = 4 /\ script[1] = Open
    /\ script[2] = Message("content_block_start", TextData("Hel"))
    /\ script[3] = Delta("lo ") /\ script[4] = Stop
    /\ chunks = <<"lo ">> /\ sresult = Ok("unit")

\* C12: a content_block_delta item whose payload is not valid JSON ends the
\* stream: it is the last item taken and stream returns an error.
C12_MalformedEventFails ==
    \A i \in 1..pos :
        script[i] = Message("content_block_delta", BadData) =>
            /\ i = pos
            /\ spc = "done"
            /\ sresult.tag = "Err"

\* ------------------------------------------------------------------------
\* Properties of load_api_key and store_api_key
\* ------------------------------------------------------------------------
EnvYields == env_var.state = "value"
StoreYields == keyring.available /\ ~keyring.locked /\ keyring.password.some
ConfigYields ==
    /\ config.dir /\ config.file = "text" /\ config.toml
    /\ config.api = "table" /\ config.field = "string"

\* C13: load_api_key returns the environment variable's value when it is
\* set, whatever the keyring and config.toml hold; else the keyring's
\* password when it holds one, whatever config.toml holds; the config
\* file's api.anthropic_key is returned only when both yield nothing.
C13_Precedence ==
    cop = "load" =>
        /\ EnvYields => loaded = Ret(Some(env_var.val))
        /\ (~EnvYields /\ StoreYields) => loaded = Ret(Some(keyring.password.val))
        /\ (~EnvYields /\ ~StoreYields /\ ConfigYields) => loaded = Ret(Some(config.val))
        /\ (EnvYields \/ StoreYields) => loaded.tag = "Ret" /\ loaded.val.some

C13_Witness ==
    /\ cop = "load" /\ env_var.state = "unset"
    /\ keyring.password = Some("xyz") /\ config.val = "cfg" /\ ConfigYields
    /\ loaded = Ret(Some("xyz"))

\* C14: in load_api_key a source that fails counts as not found and the
\* next source is tried; the call never aborts and returns None exactly
\* when all three sources yield nothing.
C14_FailuresAreNotFound ==
    cop = "load" =>
        /\ loaded.tag = "Ret"
        /\ loaded = Ret(None) <=> (~EnvYields /\ ~StoreYields /\ ~ConfigYields)

\* C15: store_api_key changes nothing but the keyring entry: the
\* environment variable and config.toml are as before the call, a keyring
\* that cannot be written gives an error and keeps its entry, and a
\* successful call leaves the key as the entry's password.
C15_StoreWritesKeyringOnly ==
    [][(storeCalls' = storeCalls + 1) =>
         /\ env_var' = env_var
         /\ config' = config
         /\ loaded' = loaded
         /\ (~keyring.available \/ keyring.locked) =>
                (stored'.tag = "Err" /\ keyring' = keyring)
         /\ (keyring.available /\ ~keyring.locked) =>
                (stored' = Ok("unit")
                 /\ keyring' = [keyring EXCEPT !.password = Some(storeArg')])]_vars

C15_Witness ==
    /\ cop = "store" /\ stored = Ok("unit") /\ storeArg = "new"
    /\ keyring.password = Some("new") /\ config.val = "cfg"
    /\ env_var.state = "unset"

\* ------------------------------------------------------------------------
\* Properties of send and send_with_tools
\* ------------------------------------------------------------------------
\* C16: send maps a transport failure to Network, status 429 to
\* RateLimited, any other status outside 200..299 to ApiError with that
\* status and the body text, a 2xx status with a parseable body to the
\* reply and a 2xx status with an unparseable body to a Network error; a
\* reply is returned for 2xx statuses only.
C16_SendClassification ==
    (sx_send # Pending /\ sx_send # Panic) =>
        LET st == sx_resp.status
            twoxx == st \in 200..299
        IN /\ ~sx_resp.transport => sx_send = Err(Network("transport"))
           /\ (sx_resp.transport /\ st = 429) => sx_send = Err(RateLimited)
           /\ (sx_resp.transport /\ ~twoxx /\ st # 429) =>
                 sx_send = Err(ApiError(st, sx_resp.body.text))
           /\ (sx_resp.transport /\ twoxx /\ sx_resp.body.json) =>
                 sx_send = Ok([content |-> sx_resp.body.content])
           /\ (sx_resp.transport /\ twoxx /\ ~sx_resp.body.json) =>
                 (sx_send.tag = "Err" /\ sx_send.err.kind = "Network")
           /\ sx_send.tag = "Ok" => (sx_resp.transport /\ twoxx)

C16_Witness ==
    /\ sx_resp.transport /\ sx_resp.status = 299 /\ sx_resp.body.json
    /\ sx_resp.body.content = <<ToolUseBlock("tu1"), TextBlock("one")>>
    /\ sx_send = Ok([content |-> <<ToolUseBlock("tu1"), TextBlock("one")>>])

\* C17: for the same client, the same backend behaviour and any tool list,
\* send_with_tools returns what send returns; the request of
\* send_with_tools carries the tool list.
C17_SendWithToolsSameAsSend ==
    /\ (sx_send # Pending /\ sx_sendTools # Pending) => sx_sendTools = sx_send
    /\ (sx_sendTools # Pending /\ sx_sendTools # Panic) =>
          (sx_req # Pending /\ (sx_send = Pending => sx_req = [tools |-> Some(sx_tools)]))

C17_Witness ==
    /\ sx_resp.transport /\ sx_resp.status = 429
    /\ sx_tools = <<"launch_app", "read_file">>
    /\ sx_send = Err(RateLimited) /\ sx_sendTools = Err(RateLimited)

\* C18: generate_response ends by returning a text or an AiError for every
\* prompt and credential; it never aborts the calling task.
C18_NeverAborts ==
    /\ pc # "panicked"
    /\ pc = "done" => result.tag \in {"Ok", "Err"}

\* ------------------------------------------------------------------------
\* Properties of load_mcp_configs and connect_mcp_server
\* ------------------------------------------------------------------------
McpFileParses ==
    /\ mcp_file.dir /\ mcp_file.file = "text" /\ mcp_file.toml
    /\ mcp_file.servers # "scalar"
    /\ \A i \in 1..Len(mcp_file.records) : mcp_file.records[i].wellformed

\* C19: load_mcp_configs returns the empty list when the config dir is
\* unknown, the file is missing or unreadable or does not parse (one
\* malformed entry is enough); when the file parses it returns the entries
\* of servers in order, and the empty list when there is no servers list.
C19_LoadConfigsNeverFails ==
    mcp_op = "load" =>
        /\ ~McpFileParses => mcp_loaded = <<>>
        /\ McpFileParses =>
              /\ Len(mcp_loaded) = Len(mcp_file.records)
              /\ \A i \in 1..Len(mcp_loaded) :
                    /\ mcp_loaded[i].name = mcp_file.records[i].name
                    /\ mcp_loaded[i].command = mcp_file.records[i].command
                    /\ mcp_loaded[i].args = mcp_file.records[i].args
                    /\ mcp_loaded[i].enabled = mcp_file.records[i].enabled

C19_Witness ==
    /\ mcp_op = "load" /\ Len(mcp_file.records) = 2
    /\ mcp_file.records[1].wellformed /\ ~mcp_file.records[2].wellformed
    /\ mcp_loaded = <<>>

\* C20: no subprocess is started for a loaded provider record whose
\* enabled flag is false.
C20_DisabledNeverConnected ==
    \A i \in 1..Len(mcp_loaded) :
        ~mcp_loaded[i].enabled => mcp_loaded[i].command \notin launched

\* struct McpTool for each advertised tool, tagged with its server
RECURSIVE Tagged(_, _)
Tagged(tools, server) ==
    IF tools = <<>> THEN <<>>
    ELSE <<[name |-> tools[1], server |-> server]>> \o Tagged(Tail(tools), server)

\* C21: connect_mcp_server returns an error when the command cannot be
\* started or its probe does not succeed, and otherwise returns the tools
\* the provider advertises, each tagged with the provider's name.
C21_ConnectReturnsTools ==
    mcp_op = "connect" =>
        /\ (~spawned.started \/ spawned.exit # 0) => connected.tag = "Err"
        /\ (spawned.started /\ spawned.exit = 0) =>
              connected = Ok(Tagged(spawned.tools, spawnCmd.provider))

\* ------------------------------------------------------------------------
\* Tool lists of send_with_tools
\* ------------------------------------------------------------------------
NoDuplicates(tools) ==
    \A i, j \in 1..Len(tools) : tools[i] = tools[j] => i = j

\* C22: no request is issued whose tools field holds two definitions with
\* the same name.
C22_DuplicateToolsRejected ==
    (sx_req # Pending /\ sx_req.tools.some) => NoDuplicates(sx_req.tools.val)

\* ------------------------------------------------------------------------
\* Properties of the local backend
\* ------------------------------------------------------------------------
\* C23: is_ollama_running returns a bool for every outcome of its request:
\* true exactly when the request completed with a status in 200..299, false
\* for a request that failed and for every other status.
C23_ProbeNeverRaises ==
    lx_running # Pending =>
        /\ lx_running \in {Ok(TRUE), Ok(FALSE)}
        /\ lx_running = Ok(TRUE) <=>
              (lx_probe.transport /\ lx_probe.status \in 200..299)

C23_Witness ==
    /\ lx_probe.transport /\ lx_probe.status = 300 /\ lx_running = Ok(FALSE)

\* C24: a failed local generate is reported as ApiError with status 500
\* and the failure's message, never as another AiError; a successful one
\* returns the response text.
C24_GenerateErrorsAreApiError ==
    lx_genResult # Pending =>
        /\ lx_gen.ok => lx_genResult = Ok(lx_gen.response)
        /\ ~lx_gen.ok =>
              /\ lx_genResult.tag = "Err"
              /\ lx_genResult.err.kind = "ApiError"
              /\ lx_genResult.err.status = 500
              /\ lx_genResult.err.message = lx_gen.error

C24_Witness ==
    /\ ~lx_gen.ok /\ lx_gen.error = "connection refused"
    /\ lx_genResult = Err(ApiError(500, "connection refused"))

\* ------------------------------------------------------------------------
\* Further properties of stream
\* ------------------------------------------------------------------------
\* C25: once a stream call has ended, by message_stop, by a transport
\* error, by the end of the event sequence or by the caller dropping it
\* while it waits for an event, its connection is closed; a connection is
\* open only while its call is running.
C25_NoConnectionOutlivesCall ==
    /\ spc \in {"done", "cancelled"} => es = "closed"
    /\ es = "open" => spc \in {"loop", "on_chunk"}

C25_Witness ==
    /\ spc = "cancelled" /\ es = "closed" /\ pos = 2
    /\ chunks = <<"Hel", "lo ">> /\ Len(script) = 4

\* C28: when the endpoint rejects the streaming request with a non-success
\* status, stream calls on_chunk zero times and returns RateLimited for
\* 429 and ApiError for another status, not success.
C28_RejectionReported ==
    (spc = "done" /\ pos = 1 /\ script[1] \in Rejections) =>
        /\ chunks = <<>>
        /\ sresult.tag = "Err"
        /\ script[1].status = 429 => sresult.err = RateLimited
        /\ script[1].status # 429 => sresult.err.kind = "ApiError"

\* ------------------------------------------------------------------------
\* Properties of stream_response
\* ------------------------------------------------------------------------
RECURSIVE Concat(_)
Concat(texts) == IF texts = <<>> THEN "" ELSE texts[1] \o Concat(Tail(texts))

CallState(c) ==
    <<sr_script[c], sr_pos[c], sr_pc[c], full_response[c], sr_delivered[c],
      sr_es[c], sr_stream[c], sr_result[c]>>

\* C26: with two stream_response calls interleaved in any order, the
\* text each call has accumulated is the in-order concatenation of the
\* fragments its own event source has yielded so far, and a step of one
\* call, its termination or failure included, leaves every part of the
\* other call's state and result unchanged.
C26_NoSharedState ==
    /\ [](\A c \in Calls :
            full_response[c] = Concat(TextsOf(SubSeq(sr_script[c], 1, sr_pos[c]))))
    /\ [][\E c \in Calls : \A d \in Calls \ {c} : CallState(d)' = CallState(d)]_vars

C26_Witness ==
    /\ sr_pc[1] = "loop" /\ sr_pos[1] = 1 /\ full_response[1] = "Hel"
    /\ sr_script[1] = <<Delta("Hel"), Delta("lo ")>>
    /\ sr_pc[2] = "done" /\ sr_script[2] = <<Delta("lo "), TransportErr>>
    /\ full_response[2] = "lo "

\* C29: stream_response returns Ok exactly when stream returned Ok, and
\* then with the concatenation, in delivery order, of the fragments passed
\* to the callback ("" when there were none); when stream returned an
\* error, stream_response returns that error.
C29_CollectsDelivered ==
    \A c \in Calls :
        sr_pc[c] = "done" =>
            /\ sr_result[c].tag = "Ok" <=> sr_stream[c].tag = "Ok"
            /\ sr_stream[c].tag = "Ok" => sr_result[c] = Ok(Concat(sr_delivered[c]))
            /\ sr_stream[c].tag = "Err" => sr_result[c] = sr_stream[c]

C29_Witness ==
    /\ sr_pc[1] = "done" /\ sr_delivered[1] = <<"lo ", "Hel">>
    /\ sr_result[1] = Ok("lo Hel")
    /\ sr_pc[2] = "done" /\ sr_delivered[2] = <<>>
    /\ sr_result[2] = Err(Network("cannot clone request"))

\* ------------------------------------------------------------------------
\* store_api_key followed by load_api_key
\* ------------------------------------------------------------------------
\* C30: after store_api_key(k) has succeeded, a load_api_key call made
\* with the environment variable unset returns k whatever config.toml
\* holds, and one made with the variable set to v returns v; a
\* store_api_key call made while the variable is set does not change what
\* load_api_key resolves to.
C30_StoreLoadRoundTrip ==
    /\ []((cop = "load" /\ stored = Ok("unit")) =>
            /\ ~EnvYields => loaded = Ret(Some(storeArg))
            /\ EnvYields => loaded = Ret(Some(env_var.val)))
    /\ [][(storeCalls' = storeCalls + 1 /\ EnvYields) =>
            LoadApiKey(env_var', keyring', config') = LoadApiKey(env_var, keyring, config)]_vars

C30_Witness ==
    /\ cop = "load" /\ stored = Ok("unit") /\ storeArg = "new"
    /\ env_var.state = "unset" /\ ConfigYields /\ config.val = "cfg"
    /\ loaded = Ret(Some("new"))

\* ------------------------------------------------------------------------
\* Properties of AiUiShell::update
\* ------------------------------------------------------------------------
\* C31: once a command has been executed, ai_streaming is true exactly
\* while some generate_response task started by ExecuteCommand has not
\* yet delivered its AiResponseComplete or AiError, also with several
\* tasks in flight, and false once every task has delivered.
C31_StreamingTracksInFlight ==
    Len(tasks) >= 1 => (ai_streaming <=> Running # {})

\* C32: when several commands overlapped and all of them have completed,
\* a response shown in ai_response is the result (text or error message)
\* of the command issued last, not of an earlier one.
C32_LatestCommandWins ==
    (Len(tasks) >= 2 /\ Running = {} /\ ai_response # "") =>
        ai_response = Shown(tasks[Len(tasks)].result)

\* C33: whenever the command bar is hidden, command_input and ai_response
\* are empty, also after the result of a request that was in flight when
\* the bar was closed has arrived.
C33_HiddenBarIsEmpty ==
    ~is_command_bar_visible => (command_input = "" /\ ai_response = "")

====
